---- MODULE Spec2Model ----
(***************************************************************************)
(* Model of sort_music.py: keyword classification of .wav file names,      *)
(* collision-free versioned copies into a genre tree, favourites           *)
(* duplication and the batched copy loop with per-file error isolation.    *)
(*                                                                         *)
(* Text is modelled as sequences of one-character strings, so that         *)
(* prefix tests, regular-expression search, lower-casing, path splitting   *)
(* and the " v<k>" version suffix are computed as the code computes them.  *)
(***************************************************************************)
EXTENDS Integers, Sequences, FiniteSets, TLC

VARIABLES
    fs,                  \* output tree: path (sequence of components) -> entry
    all_files,           \* sort_music: result of scan_files, in scan order
    classification_map,  \* sort_music: FileEntry -> folder string
    processed,           \* sort_music: count of fully placed files
    errors,              \* sort_music: sequence of <<file name, message>>
    BATCH_SIZE,          \* module constant of the program, fixed per behaviour
    i,                   \* outer loop variable of the copy phase (0-based)
    batch,               \* current slice all_files[i:i+BATCH_SIZE]
    j,                   \* position in batch of source_file (1-based)
    pc,                  \* position of the program
    run,                 \* number of the current run into the same tree
    faults,              \* number of injected I/O faults so far
    outcomes,            \* history: one record per copy attempt of this run
    fs0,                 \* history: the output tree when this run started
    call                 \* argument and result of a direct helper call

vars == << fs, all_files, classification_map, processed, errors, BATCH_SIZE,
           i, batch, j, pc, run, faults, outcomes, fs0, call >>

----------------------------------------------------------------------------
(* Bounds of the exploration *)

MaxFiles == 3
MaxBatch == 2
MaxRuns == 2
MaxFaults == 1
MaxWords == 2
MaxVersion == 10

----------------------------------------------------------------------------
(* Text primitives *)

UpperChars == << "A", "B", "C", "D", "E", "F", "G", "H", "I", "J", "K", "L", "M",
                 "N", "O", "P", "Q", "R", "S", "T", "U", "V", "W", "X", "Y", "Z" >>

LowerChars == << "a", "b", "c", "d", "e", "f", "g", "h", "i", "j", "k", "l", "m",
                 "n", "o", "p", "q", "r", "s", "t", "u", "v", "w", "x", "y", "z" >>

DigitChars == << "0", "1", "2", "3", "4", "5", "6", "7", "8", "9" >>

Range(s) == { s[k] : k \in 1..Len(s) }

UpperSet == Range(UpperChars)

LowerOf == [ c \in UpperSet |-> LowerChars[CHOOSE k \in 1..26 : UpperChars[k] = c] ]

\* str.lower() on one character
LowerChar(c) == IF c \in UpperSet THEN LowerOf[c] ELSE c

\* str.lower()
Lower(s) == [ k \in 1..Len(s) |-> LowerChar(s[k]) ]

\* str.startswith(prefix)
StartsWith(s, prefix) ==
    /\ Len(s) >= Len(prefix)
    /\ SubSeq(s, 1, Len(prefix)) = prefix

\* str(int) for a non-negative integer
RECURSIVE IntToStr(_)
IntToStr(n) ==
    IF n < 10 THEN << DigitChars[n + 1] >>
    ELSE Append(IntToStr(n \div 10), DigitChars[(n % 10) + 1])

----------------------------------------------------------------------------
(* Regular expressions: the subset used by the keyword patterns.  A        *)
(* pattern is a sequence of tokens <<kind, char>>:                         *)
(*   "c" literal character, "o" optional character (x?),                   *)
(*   "b" word boundary (\b), "d" one or more digits (\d+).                 *)

Lit(s) == [ k \in 1..Len(s) |-> << "c", s[k] >> ]
Opt(c) == << << "o", c >> >>
WordB == << << "b", "" >> >>
Digits1 == << << "d", "" >> >>

DigitSet == Range(DigitChars)

WordCharSet == Range(UpperChars) \cup Range(LowerChars) \cup Range(DigitChars) \cup {"_"}

IsDigit(c) == c \in DigitSet

\* \w
IsWordChar(c) == c \in WordCharSet

WordAt(s, pos) == pos >= 1 /\ pos <= Len(s) /\ IsWordChar(s[pos])

\* \b holds before position pos
IsBoundary(s, pos) == WordAt(s, pos - 1) # WordAt(s, pos)

\* the pattern from token t on matches s starting at pos (re.IGNORECASE)
RECURSIVE MatchHere(_, _, _, _)
MatchHere(pat, t, s, pos) ==
    IF t > Len(pat) THEN TRUE
    ELSE LET kind == pat[t][1]
             ch == pat[t][2]
         IN  CASE kind = "c" ->
                    /\ pos <= Len(s)
                    /\ LowerChar(s[pos]) = LowerChar(ch)
                    /\ MatchHere(pat, t + 1, s, pos + 1)
               [] kind = "o" ->
                    \/ /\ pos <= Len(s)
                       /\ LowerChar(s[pos]) = LowerChar(ch)
                       /\ MatchHere(pat, t + 1, s, pos + 1)
                    \/ MatchHere(pat, t + 1, s, pos)
               [] kind = "b" ->
                    /\ IsBoundary(s, pos)
                    /\ MatchHere(pat, t + 1, s, pos)
               [] kind = "d" ->
                    \E n \in 1..(Len(s) - pos + 1) :
                        /\ \A k \in pos..(pos + n - 1) : IsDigit(s[k])
                        /\ MatchHere(pat, t + 1, s, pos + n)

\* re.search(pattern, s, re.IGNORECASE) is not None
re_search(pattern, s) ==
    \E pos \in 1..(Len(s) + 1) : MatchHere(pattern, 1, s, pos)

----------------------------------------------------------------------------
(* Configuration *)

GENRE_RULES ==
     \* stems_vocals -> 06_Stems_Production/Vocals   \(vocals?\)
  << [ name |-> "stems_vocals", priority |-> 1,
       folder |-> <<"0", "6", "_", "S", "t", "e", "m", "s", "_", "P", "r", "o", "d", "u", "c", "t", "i", "o", "n", "/", "V", "o", "c", "a", "l", "s">>,
       keywords |-> <<
         Lit(<<"(", "v", "o", "c", "a", "l">>) \o Opt("s") \o Lit(<<")">>)
       >> ],
     \* stems_instrumental -> 06_Stems_Production/Instrumental   \binstrumental\b  \(instrumental\)
     [ name |-> "stems_instrumental", priority |-> 1,
       folder |-> <<"0", "6", "_", "S", "t", "e", "m", "s", "_", "P", "r", "o", "d", "u", "c", "t", "i", "o", "n", "/", "I", "n", "s", "t", "r", "u", "m", "e", "n", "t", "a", "l">>,
       keywords |-> <<
         WordB \o Lit(<<"i", "n", "s", "t", "r", "u", "m", "e", "n", "t", "a", "l">>) \o WordB,
         Lit(<<"(", "i", "n", "s", "t", "r", "u", "m", "e", "n", "t", "a", "l", ")">>)
       >> ],
     \* stems_other -> 06_Stems_Production/Stems   \(bass\)  \(drums?\)  \(other\)  \(stem
     [ name |-> "stems_other", priority |-> 1,
       folder |-> <<"0", "6", "_", "S", "t", "e", "m", "s", "_", "P", "r", "o", "d", "u", "c", "t", "i", "o", "n", "/", "S", "t", "e", "m", "s">>,
       keywords |-> <<
         Lit(<<"(", "b", "a", "s", "s", ")">>),
         Lit(<<"(", "d", "r", "u", "m">>) \o Opt("s") \o Lit(<<")">>),
         Lit(<<"(", "o", "t", "h", "e", "r", ")">>),
         Lit(<<"(", "s", "t", "e", "m">>)
       >> ],
     \* remixes_artists -> 05_Remixes_Edits/Artist_Remixes   \banyma\b  \bargy\b  \bklingande\b  \bjubel\b  son of son
     [ name |-> "remixes_artists", priority |-> 2,
       folder |-> <<"0", "5", "_", "R", "e", "m", "i", "x", "e", "s", "_", "E", "d", "i", "t", "s", "/", "A", "r", "t", "i", "s", "t", "_", "R", "e", "m", "i", "x", "e", "s">>,
       keywords |-> <<
         WordB \o Lit(<<"a", "n", "y", "m", "a">>) \o WordB,
         WordB \o Lit(<<"a", "r", "g", "y">>) \o WordB,
         WordB \o Lit(<<"k", "l", "i", "n", "g", "a", "n", "d", "e">>) \o WordB,
         WordB \o Lit(<<"j", "u", "b", "e", "l">>) \o WordB,
         Lit(<<"s", "o", "n", " ", "o", "f", " ", "s", "o", "n">>)
       >> ],
     \* remixes_extended -> 05_Remixes_Edits/Extended_Versions   \bremix\b  \bedit\b  \bext v\d+  \bextended\b
     [ name |-> "remixes_extended", priority |-> 2,
       folder |-> <<"0", "5", "_", "R", "e", "m", "i", "x", "e", "s", "_", "E", "d", "i", "t", "s", "/", "E", "x", "t", "e", "n", "d", "e", "d", "_", "V", "e", "r", "s", "i", "o", "n", "s">>,
       keywords |-> <<
         WordB \o Lit(<<"r", "e", "m", "i", "x">>) \o WordB,
         WordB \o Lit(<<"e", "d", "i", "t">>) \o WordB,
         WordB \o Lit(<<"e", "x", "t", " ", "v">>) \o Digits1,
         WordB \o Lit(<<"e", "x", "t", "e", "n", "d", "e", "d">>) \o WordB
       >> ],
     \* electronic_house -> 01_Electronic_Dance/House   \bhouse\b  \bdeep house\b  \bprogressive house\b
     [ name |-> "electronic_house", priority |-> 3,
       folder |-> <<"0", "1", "_", "E", "l", "e", "c", "t", "r", "o", "n", "i", "c", "_", "D", "a", "n", "c", "e", "/", "H", "o", "u", "s", "e">>,
       keywords |-> <<
         WordB \o Lit(<<"h", "o", "u", "s", "e">>) \o WordB,
         WordB \o Lit(<<"d", "e", "e", "p", " ", "h", "o", "u", "s", "e">>) \o WordB,
         WordB \o Lit(<<"p", "r", "o", "g", "r", "e", "s", "s", "i", "v", "e", " ", "h", "o", "u", "s", "e">>) \o WordB
       >> ],
     \* electronic_techno -> 01_Electronic_Dance/Techno   \btechno\b  \bmelodic techno\b
     [ name |-> "electronic_techno", priority |-> 3,
       folder |-> <<"0", "1", "_", "E", "l", "e", "c", "t", "r", "o", "n", "i", "c", "_", "D", "a", "n", "c", "e", "/", "T", "e", "c", "h", "n", "o">>,
       keywords |-> <<
         WordB \o Lit(<<"t", "e", "c", "h", "n", "o">>) \o WordB,
         WordB \o Lit(<<"m", "e", "l", "o", "d", "i", "c", " ", "t", "e", "c", "h", "n", "o">>) \o WordB
       >> ],
     \* electronic_psytrance -> 01_Electronic_Dance/Psytrance   \bpsytrance\b  \bpsychedelic\b  \bpsych\b
     [ name |-> "electronic_psytrance", priority |-> 3,
       folder |-> <<"0", "1", "_", "E", "l", "e", "c", "t", "r", "o", "n", "i", "c", "_", "D", "a", "n", "c", "e", "/", "P", "s", "y", "t", "r", "a", "n", "c", "e">>,
       keywords |-> <<
         WordB \o Lit(<<"p", "s", "y", "t", "r", "a", "n", "c", "e">>) \o WordB,
         WordB \o Lit(<<"p", "s", "y", "c", "h", "e", "d", "e", "l", "i", "c">>) \o WordB,
         WordB \o Lit(<<"p", "s", "y", "c", "h">>) \o WordB
       >> ],
     \* electronic_idm -> 01_Electronic_Dance/IDM   \bidm\b  \bintelligent dance\b
     [ name |-> "electronic_idm", priority |-> 3,
       folder |-> <<"0", "1", "_", "E", "l", "e", "c", "t", "r", "o", "n", "i", "c", "_", "D", "a", "n", "c", "e", "/", "I", "D", "M">>,
       keywords |-> <<
         WordB \o Lit(<<"i", "d", "m">>) \o WordB,
         WordB \o Lit(<<"i", "n", "t", "e", "l", "l", "i", "g", "e", "n", "t", " ", "d", "a", "n", "c", "e">>) \o WordB
       >> ],
     \* electronic_electro -> 01_Electronic_Dance/Electro   \belectro\b  \belectronic\b  \belectronica\b
     [ name |-> "electronic_electro", priority |-> 3,
       folder |-> <<"0", "1", "_", "E", "l", "e", "c", "t", "r", "o", "n", "i", "c", "_", "D", "a", "n", "c", "e", "/", "E", "l", "e", "c", "t", "r", "o">>,
       keywords |-> <<
         WordB \o Lit(<<"e", "l", "e", "c", "t", "r", "o">>) \o WordB,
         WordB \o Lit(<<"e", "l", "e", "c", "t", "r", "o", "n", "i", "c">>) \o WordB,
         WordB \o Lit(<<"e", "l", "e", "c", "t", "r", "o", "n", "i", "c", "a">>) \o WordB
       >> ],
     \* atmospheric_hypnotic -> 02_Atmospheric_Electronic/Hypnotic   \bhypnotic\b  \btrance\b
     [ name |-> "atmospheric_hypnotic", priority |-> 4,
       folder |-> <<"0", "2", "_", "A", "t", "m", "o", "s", "p", "h", "e", "r", "i", "c", "_", "E", "l", "e", "c", "t", "r", "o", "n", "i", "c", "/", "H", "y", "p", "n", "o", "t", "i", "c">>,
       keywords |-> <<
         WordB \o Lit(<<"h", "y", "p", "n", "o", "t", "i", "c">>) \o WordB,
         WordB \o Lit(<<"t", "r", "a", "n", "c", "e">>) \o WordB
       >> ],
     \* atmospheric_ethereal -> 02_Atmospheric_Electronic/Ethereal   \bethereal\b  \bdream\b  \bdreamy\b
     [ name |-> "atmospheric_ethereal", priority |-> 4,
       folder |-> <<"0", "2", "_", "A", "t", "m", "o", "s", "p", "h", "e", "r", "i", "c", "_", "E", "l", "e", "c", "t", "r", "o", "n", "i", "c", "/", "E", "t", "h", "e", "r", "e", "a", "l">>,
       keywords |-> <<
         WordB \o Lit(<<"e", "t", "h", "e", "r", "e", "a", "l">>) \o WordB,
         WordB \o Lit(<<"d", "r", "e", "a", "m">>) \o WordB,
         WordB \o Lit(<<"d", "r", "e", "a", "m", "y">>) \o WordB
       >> ],
     \* atmospheric_melodic -> 02_Atmospheric_Electronic/Melodic   \bmelodic\b  \beuphoric\b  \bmellow\b  \bsoothing\b
     [ name |-> "atmospheric_melodic", priority |-> 4,
       folder |-> <<"0", "2", "_", "A", "t", "m", "o", "s", "p", "h", "e", "r", "i", "c", "_", "E", "l", "e", "c", "t", "r", "o", "n", "i", "c", "/", "M", "e", "l", "o", "d", "i", "c">>,
       keywords |-> <<
         WordB \o Lit(<<"m", "e", "l", "o", "d", "i", "c">>) \o WordB,
         WordB \o Lit(<<"e", "u", "p", "h", "o", "r", "i", "c">>) \o WordB,
         WordB \o Lit(<<"m", "e", "l", "l", "o", "w">>) \o WordB,
         WordB \o Lit(<<"s", "o", "o", "t", "h", "i", "n", "g">>) \o WordB
       >> ],
     \* atmospheric_ambient -> 02_Atmospheric_Electronic/Ambient   \bambient\b  \batmospheric\b  \bcosmic\b  \bspace\b
     [ name |-> "atmospheric_ambient", priority |-> 4,
       folder |-> <<"0", "2", "_", "A", "t", "m", "o", "s", "p", "h", "e", "r", "i", "c", "_", "E", "l", "e", "c", "t", "r", "o", "n", "i", "c", "/", "A", "m", "b", "i", "e", "n", "t">>,
       keywords |-> <<
         WordB \o Lit(<<"a", "m", "b", "i", "e", "n", "t">>) \o WordB,
         WordB \o Lit(<<"a", "t", "m", "o", "s", "p", "h", "e", "r", "i", "c">>) \o WordB,
         WordB \o Lit(<<"c", "o", "s", "m", "i", "c">>) \o WordB,
         WordB \o Lit(<<"s", "p", "a", "c", "e">>) \o WordB
       >> ],
     \* rock -> 03_Rock_Alternative/Rock   \brock\b  \balternative\b  \bindie\b  \bpunk\b  \bmetal\b
     [ name |-> "rock", priority |-> 5,
       folder |-> <<"0", "3", "_", "R", "o", "c", "k", "_", "A", "l", "t", "e", "r", "n", "a", "t", "i", "v", "e", "/", "R", "o", "c", "k">>,
       keywords |-> <<
         WordB \o Lit(<<"r", "o", "c", "k">>) \o WordB,
         WordB \o Lit(<<"a", "l", "t", "e", "r", "n", "a", "t", "i", "v", "e">>) \o WordB,
         WordB \o Lit(<<"i", "n", "d", "i", "e">>) \o WordB,
         WordB \o Lit(<<"p", "u", "n", "k">>) \o WordB,
         WordB \o Lit(<<"m", "e", "t", "a", "l">>) \o WordB
       >> ],
     \* pop -> 04_Pop_Mainstream/Pop   \bpop\b  \bsynthpop\b
     [ name |-> "pop", priority |-> 5,
       folder |-> <<"0", "4", "_", "P", "o", "p", "_", "M", "a", "i", "n", "s", "t", "r", "e", "a", "m", "/", "P", "o", "p">>,
       keywords |-> <<
         WordB \o Lit(<<"p", "o", "p">>) \o WordB,
         WordB \o Lit(<<"s", "y", "n", "t", "h", "p", "o", "p">>) \o WordB
       >> ],
     \* german -> 07_German_Electronic/Deutsche_Tracks   \bder\b  \bdie\b  \bdas\b  \bzeit\b  \btanz\b  \bwald\b  \bschwingung\b  \bkreist\b  \bhalsband\b  \bflimmern\b  \bsymbole\b  \binkubation\b  \bnur\b
     [ name |-> "german", priority |-> 6,
       folder |-> <<"0", "7", "_", "G", "e", "r", "m", "a", "n", "_", "E", "l", "e", "c", "t", "r", "o", "n", "i", "c", "/", "D", "e", "u", "t", "s", "c", "h", "e", "_", "T", "r", "a", "c", "k", "s">>,
       keywords |-> <<
         WordB \o Lit(<<"d", "e", "r">>) \o WordB,
         WordB \o Lit(<<"d", "i", "e">>) \o WordB,
         WordB \o Lit(<<"d", "a", "s">>) \o WordB,
         WordB \o Lit(<<"z", "e", "i", "t">>) \o WordB,
         WordB \o Lit(<<"t", "a", "n", "z">>) \o WordB,
         WordB \o Lit(<<"w", "a", "l", "d">>) \o WordB,
         WordB \o Lit(<<"s", "c", "h", "w", "i", "n", "g", "u", "n", "g">>) \o WordB,
         WordB \o Lit(<<"k", "r", "e", "i", "s", "t">>) \o WordB,
         WordB \o Lit(<<"h", "a", "l", "s", "b", "a", "n", "d">>) \o WordB,
         WordB \o Lit(<<"f", "l", "i", "m", "m", "e", "r", "n">>) \o WordB,
         WordB \o Lit(<<"s", "y", "m", "b", "o", "l", "e">>) \o WordB,
         WordB \o Lit(<<"i", "n", "k", "u", "b", "a", "t", "i", "o", "n">>) \o WordB,
         WordB \o Lit(<<"n", "u", "r">>) \o WordB
       >> ] >>

UNCATEGORIZED_FOLDER ==
    << "9", "9", "_", "U", "n", "c", "a", "t", "e", "g", "o", "r", "i", "z", "e", "d",
       "/", "O", "t", "h", "e", "r" >>

FAVORITES_SUBFOLDER == << "_", "F", "A", "V", "O", "R", "I", "T", "E", "S" >>

----------------------------------------------------------------------------
(* Classification *)

\* insert rule r after every rule whose priority is not greater: a stable insert
RECURSIVE InsertByPriority(_, _)
InsertByPriority(sorted, r) ==
    IF sorted = << >> THEN << r >>
    ELSE IF sorted[Len(sorted)].priority <= r.priority
         THEN Append(sorted, r)
         ELSE Append(InsertByPriority(SubSeq(sorted, 1, Len(sorted) - 1), r),
                     sorted[Len(sorted)])

RECURSIVE SortByPriority(_)
SortByPriority(rules) ==
    IF rules = << >> THEN << >>
    ELSE InsertByPriority(SortByPriority(SubSeq(rules, 1, Len(rules) - 1)),
                          rules[Len(rules)])

\* as sorted_rules, with the order of the sort reversed
sorted_rules_reversed ==
    LET asc == SortByPriority(GENRE_RULES)
    IN  [ k \in 1..Len(asc) |-> asc[Len(asc) + 1 - k] ]

\* sorted(GENRE_RULES.items(), key=lambda x: x[1]['priority'])
sorted_rules == SortByPriority(GENRE_RULES)

RuleMatches(rule_data, filename_lower) ==
    \E p \in 1..Len(rule_data.keywords) : re_search(rule_data.keywords[p], filename_lower)

\* as ClassifyFrom, but a later matching rule replaces an earlier one
ClassifyFrom_last(r, filename_lower) ==
    LET hits == { q \in r..Len(sorted_rules) : RuleMatches(sorted_rules[q], filename_lower) }
        last == CHOOSE q \in hits : \A h \in hits : h <= q
    IN  IF hits = {} THEN << UNCATEGORIZED_FOLDER, 999 >>
        ELSE << sorted_rules[last].folder, sorted_rules[last].priority >>

\* the loop of classify_file from rule number r on
RECURSIVE ClassifyFrom(_, _)
ClassifyFrom(r, filename_lower) ==
    IF r > Len(sorted_rules) THEN << UNCATEGORIZED_FOLDER, 999 >>
    ELSE IF RuleMatches(sorted_rules[r], filename_lower)
         THEN << sorted_rules[r].folder, sorted_rules[r].priority >>
         ELSE ClassifyFrom(r + 1, filename_lower)

classify_file(filename_lower) == ClassifyFrom(1, filename_lower)

\* as is_favorite, with a marker of two characters
is_favorite_two(filename) == StartsWith(filename, << "+", "+" >>)

\* filename.startswith('+++')
is_favorite(filename) == StartsWith(filename, << "+", "+", "+" >>)

----------------------------------------------------------------------------
(* Paths.  A path below the output root is the sequence of its components; *)
(* the output root itself is << >>.                                        *)

Min(a, b) == IF a <= b THEN a ELSE b

\* the components of a "/"-separated relative path string (empty ones dropped)
RECURSIVE SplitSlash(_, _, _)
SplitSlash(s, k, cur) ==
    IF k > Len(s) THEN (IF cur = << >> THEN << >> ELSE << cur >>)
    ELSE IF s[k] = "/"
         THEN (IF cur = << >> THEN << >> ELSE << cur >>) \o SplitSlash(s, k + 1, << >>)
         ELSE SplitSlash(s, k + 1, Append(cur, s[k]))

\* base_path / dest_folder, with base_path the output root
PathParts(dest_folder) == SplitSlash(dest_folder, 1, << >>)

Parent(path) == SubSeq(path, 1, Len(path) - 1)

\* str.rfind('.') as a 1-based position, 0 when there is no dot
LastDot(name) ==
    IF \E k \in 1..Len(name) : name[k] = "."
    THEN CHOOSE k \in 1..Len(name) :
            /\ name[k] = "."
            /\ \A m \in (k + 1)..Len(name) : name[m] # "."
    ELSE 0

HasSuffix(name) == 1 < LastDot(name) /\ LastDot(name) < Len(name)

\* PurePath.suffix
Suffix(name) ==
    IF HasSuffix(name) THEN SubSeq(name, LastDot(name), Len(name)) ELSE << >>

\* PurePath.stem
Stem(name) ==
    IF HasSuffix(name) THEN SubSeq(name, 1, LastDot(name) - 1) ELSE name

\* as VersionName, without the space before the version marker
VersionName_nospace(stem, counter, suffix) ==
    stem \o << "v" >> \o IntToStr(counter) \o suffix

\* f"{stem} v{counter}{suffix}"
VersionName(stem, counter, suffix) ==
    stem \o << " ", "v" >> \o IntToStr(counter) \o suffix

----------------------------------------------------------------------------
(* The output tree *)

NoSource == [ dir |-> 0, name |-> << >> ]

DirEntry == [ kind |-> "dir", src |-> NoSource, data |-> "none" ]

\* a file that was in the tree before the first run
OldFile == [ kind |-> "file", src |-> NoSource, data |-> "old" ]

\* a copy of source file src; data is "full", or "partial" after a failed write
CopyOf(src, data) == [ kind |-> "file", src |-> src, data |-> data ]

\* Path.exists()
Exists(tree, path) == path \in DOMAIN tree

\* Path.is_dir()
IsDir(tree, path) == path \in DOMAIN tree /\ tree[path].kind = "dir"

\* Path.mkdir(parents=True, exist_ok=True): the tree afterwards, and whether
\* it raised (a component of the path exists and is not a directory)
RECURSIVE Mkdir(_, _)
Mkdir(tree, path) ==
    IF Exists(tree, path)
    THEN [ ok |-> IsDir(tree, path), fs |-> tree ]
    ELSE IF path = << >>
         THEN [ ok |-> TRUE, fs |-> (path :> DirEntry) @@ tree ]
         ELSE LET up == Mkdir(tree, Parent(path))
              IN  IF up.ok
                  THEN [ ok |-> TRUE, fs |-> (path :> DirEntry) @@ up.fs ]
                  ELSE up

----------------------------------------------------------------------------
(* Versioning *)

\* as NextFree, without the test that the candidate is free
NextFree_nocheck(tree, parent, stem, suffix, counter) ==
    Append(parent, VersionName(stem, counter, suffix))

\* the while loop of get_next_version_filename
RECURSIVE NextFree(_, _, _, _, _)
NextFree(tree, parent, stem, suffix, counter) ==
    LET new_path == Append(parent, VersionName(stem, counter, suffix))
    IN  IF ~Exists(tree, new_path) THEN new_path
        ELSE NextFree(tree, parent, stem, suffix, counter + 1)

\* as get_next_version_filename, without looking at the tree
get_next_version_filename_overwrite(tree, dest_path) == dest_path

get_next_version_filename(tree, dest_path) ==
    IF ~Exists(tree, dest_path) THEN dest_path
    ELSE LET name == dest_path[Len(dest_path)]
         IN  NextFree(tree, Parent(dest_path), Stem(name), Suffix(name), 2)

\* copy_file_with_versioning(source_path, dest_folder, output_path) on tree,
\* under the I/O fault the environment injects into this call:
\*   "none"; "mkdir": mkdir raises and creates nothing; "write": copy2 raises
\*   after it has created the destination, leaving a partial file.
copy_file_with_versioning(tree, source_path, dest_folder, fault) ==
    LET dest_folder_path == PathParts(dest_folder)
        made == Mkdir(tree, dest_folder_path)
        dest_file == Append(dest_folder_path, source_path.name)
        final_dest == get_next_version_filename(made.fs, dest_file)
    IN  IF fault = "mkdir"
        THEN [ ok |-> FALSE, fs |-> tree, dest |-> << >>, msg |-> "mkdir" ]
        ELSE IF ~made.ok
        THEN [ ok |-> FALSE, fs |-> made.fs, dest |-> << >>, msg |-> "exists" ]
        ELSE IF fault = "write"
        THEN [ ok |-> FALSE, fs |-> (final_dest :> CopyOf(source_path, "partial")) @@ made.fs,
               dest |-> final_dest, msg |-> "write" ]
        ELSE [ ok |-> TRUE, fs |-> (final_dest :> CopyOf(source_path, "full")) @@ made.fs,
               dest |-> final_dest, msg |-> "" ]

----------------------------------------------------------------------------
(* Notation of the properties, written independently of the operators above *)

\* the decimal numerals of 1, 2, 3, ...
Decimal ==
    << <<"1">>, <<"2">>, <<"3">>, <<"4">>, <<"5">>, <<"6">>,
       <<"7">>, <<"8">>, <<"9">>, <<"1", "0">>, <<"1", "1">>, <<"1", "2">>,
       <<"1", "3">>, <<"1", "4">>, <<"1", "5">>, <<"1", "6">>, <<"1", "7">>, <<"1", "8">>,
       <<"1", "9">>, <<"2", "0">>, <<"2", "1">>, <<"2", "2">>, <<"2", "3">>, <<"2", "4">>,
       <<"2", "5">>, <<"2", "6">>, <<"2", "7">>, <<"2", "8">>, <<"2", "9">>, <<"3", "0">>,
       <<"3", "1">>, <<"3", "2">>, <<"3", "3">>, <<"3", "4">>, <<"3", "5">>, <<"3", "6">>,
       <<"3", "7">>, <<"3", "8">>, <<"3", "9">>, <<"4", "0">> >>

\* '<stem> v<k><ext>' for a name '<stem>.wav'; a name without a stem, such as
\* '.wav', has the empty extension
ExpectedVersion(name, k) ==
    IF Len(name) > 4 /\ SubSeq(name, Len(name) - 3, Len(name)) = << ".", "w", "a", "v" >>
    THEN SubSeq(name, 1, Len(name) - 4) \o << " ", "v" >> \o Decimal[k]
         \o << ".", "w", "a", "v" >>
    ELSE name \o << " ", "v" >> \o Decimal[k]

\* the path in folder dir that a copy named name must get in tree t: the name
\* itself when free, otherwise the version with the smallest free k >= 2
FirstFree(t, dir, name) ==
    IF Append(dir, name) \notin DOMAIN t THEN Append(dir, name)
    ELSE LET k == CHOOSE n \in 2..(Cardinality(DOMAIN t) + 2) :
                     /\ Append(dir, ExpectedVersion(name, n)) \notin DOMAIN t
                     /\ \A m \in 2..(n - 1) : Append(dir, ExpectedVersion(name, m)) \in DOMAIN t
         IN  Append(dir, ExpectedVersion(name, k))

\* the name starts with the three characters +++
HasMarker(name) == Len(name) >= 3 /\ name[1] = "+" /\ name[2] = "+" /\ name[3] = "+"

----------------------------------------------------------------------------
(* Inputs *)

\* "Track.wav"
N_Track == <<"T", "r", "a", "c", "k", ".", "w", "a", "v">>

\* "Track v2.wav"
N_TrackV2 == <<"T", "r", "a", "c", "k", " ", "v", "2", ".", "w", "a", "v">>

\* "+++Pop Anthem.wav"
N_FavPop == <<"+", "+", "+", "P", "o", "p", " ", "A", "n", "t", "h", "e", "m", ".", "w", "a", "v">>

\* "Melodic Dream.wav"
N_Melodic == <<"M", "e", "l", "o", "d", "i", "c", " ", "D", "r", "e", "a", "m", ".", "w", "a", "v">>

\* "Techno Night.wav"
N_Techno == <<"T", "e", "c", "h", "n", "o", " ", "N", "i", "g", "h", "t", ".", "w", "a", "v">>

\* "++Track+++.wav"
N_NotFav == <<"+", "+", "T", "r", "a", "c", "k", "+", "+", "+", ".", "w", "a", "v">>

Names == { N_Track, N_TrackV2, N_FavPop, N_Melodic, N_Techno, N_NotFav }

\* names that are combined freely
CoreNames == { N_Track, N_TrackV2, N_FavPop }

\* a source file: the k-th file of a scan lies in its own source folder k
FileEntry(k, name) == [ dir |-> k, name |-> name ]

Scanned(names) == [ k \in 1..Len(names) |-> FileEntry(k, names[k]) ]

\* the three files of the first end-to-end scenario, in every scan order
ScenarioListings ==
    { Scanned(names) : names \in { n \in [ 1..3 -> { N_Melodic, N_Techno, N_FavPop } ] :
                                      Range(n) = { N_Melodic, N_Techno, N_FavPop } } }

\* a name with plus signs that is no favourite, alone and beside a favourite
MarkerListings ==
    { Scanned(<< N_NotFav >>), Scanned(<< N_NotFav, N_FavPop >>),
      Scanned(<< N_FavPop, N_NotFav >>) }

\* results of scan_files: up to MaxFiles .wav files, in scan order
Listings ==
    UNION { { Scanned(names) : names \in [ 1..n -> CoreNames ] } : n \in 0..MaxFiles }
    \cup ScenarioListings \cup MarkerListings

Tree(paths, entry) == [ p \in paths |-> entry ]

PopFolder == PathParts(GENRE_RULES[16].folder)

OtherFolder == PathParts(UNCATEGORIZED_FOLDER)

Prefixes(path) == { SubSeq(path, 1, n) : n \in 0..Len(path) }

EmptyTree == << >>

\* a tree from earlier use: "Track.wav" and "+++Pop Anthem.wav" are taken in
\* their category folders
TreeA ==
    Tree(Prefixes(PopFolder) \cup Prefixes(OtherFolder), DirEntry)
    @@ Tree({ Append(PopFolder, N_FavPop), Append(OtherFolder, N_Track) }, OldFile)

\* a tree in which only the favourites copy of "+++Pop Anthem.wav" exists, and
\* a regular file occupies the name of the folder 99_Uncategorized/Other
TreeB ==
    Tree(Prefixes(Append(PopFolder, FAVORITES_SUBFOLDER)) \cup Prefixes(Parent(OtherFolder)),
         DirEntry)
    @@ Tree({ Append(Append(PopFolder, FAVORITES_SUBFOLDER), N_FavPop), OtherFolder }, OldFile)

InitialTrees == { EmptyTree, TreeA, TreeB }

Faults == { "mkdir", "write" }

\* the faults the environment may inject into the next copy
FaultChoices(n) == IF n < MaxFaults THEN Faults \cup { "none" } ELSE { "none" }

NoCall == [ fn |-> "none", arg |-> << >>, calls |-> 0, result |-> << >>, again |-> << >> ]

----------------------------------------------------------------------------
(* sort_music *)

\* as BatchSlice, with the end of the slice one too low
BatchSlice_short(files, start, size) ==
    SubSeq(files, start + 1, Min(start + size - 1, Len(files)))

\* all_files[i:i + BATCH_SIZE]
BatchSlice(files, start, size) ==
    SubSeq(files, start + 1, Min(start + size, Len(files)))

\* folder, priority = classify_file(file_path.name.lower()), evaluated once
\* for each name that occurs in a listing
RECURSIVE ClassifyNames(_)
ClassifyNames(names) ==
    IF names = {} THEN << >>
    ELSE LET name == CHOOSE n \in names : TRUE
             filename_lower == Lower(name)
         IN  (name :> classify_file(filename_lower)[1]) @@ ClassifyNames(names \ { name })

FolderOfName == ClassifyNames(Names)

\* Step 2: classification_map[file_path] = folder, for every file
ClassifyAll(files) ==
    [ file_path \in Range(files) |-> FolderOfName[file_path.name] ]

\* as fav_folder, without the subfolder
fav_folder_same(dest_folder) == dest_folder

\* fav_folder = f"{dest_folder}/{FAVORITES_SUBFOLDER}"
fav_folder(dest_folder) == dest_folder \o << "/" >> \o FAVORITES_SUBFOLDER

\* as except_Exception, with the error dropped
except_Exception_swallow(errs, source_file, e) == errs

\* except Exception as e: errors.append((source_file.name, str(e)))
except_Exception(errs, source_file, e) == Append(errs, << source_file.name, e >>)

\* as ProcessedAfterPrimary, counting a favourite before its second copy
ProcessedAfterPrimary_always(count, source_file) == count + 1

\* processed after the primary copy of source_file succeeded: a favourite is
\* counted only after its second copy
ProcessedAfterPrimary(count, source_file) ==
    IF is_favorite(source_file.name) THEN count ELSE count + 1

\* the record kept of one call of copy_file_with_versioning
Outcome(index, copy, fault, desired, r) ==
    [ file |-> index, copy |-> copy, fault |-> fault, ok |-> r.ok,
      desired |-> desired, dest |-> r.dest, msg |-> r.msg ]

\* before the first run: some output tree, some batch size, and the number
\* n of I/O faults already spent
Boot(n) ==
    /\ fs \in InitialTrees
    /\ BATCH_SIZE \in 1..MaxBatch
    /\ all_files = << >>
    /\ classification_map = << >>
    /\ processed = 0
    /\ errors = << >>
    /\ i = 0
    /\ batch = << >>
    /\ j = 1
    /\ pc = "start"
    /\ run = 0
    /\ faults = n
    /\ outcomes = << >>
    /\ fs0 = fs
    /\ call = NoCall

Init == Boot(0)

\* sort_music up to the copy loop, files being the result of the scan:
\* return when nothing was found, else classify every file
Begin(files) ==
    /\ all_files' = files
    /\ classification_map' = IF Len(files) = 0 THEN << >> ELSE ClassifyAll(files)
    /\ pc' = IF Len(files) = 0 THEN "done" ELSE "batch"
    /\ processed' = 0
    /\ errors' = << >>
    /\ i' = 0
    /\ batch' = << >>
    /\ j' = 1
    /\ run' = run + 1
    /\ outcomes' = << >>
    /\ fs0' = fs
    /\ UNCHANGED << fs, BATCH_SIZE, faults, call >>

\* the first run of sort_music
Start ==
    /\ pc = "start"
    /\ \E files \in Listings : Begin(files)

\* a further run over the same, unchanged source folder into the same tree
Rerun ==
    /\ pc = "done"
    /\ run < MaxRuns
    /\ Begin(all_files)

\* for i in range(0, len(all_files), BATCH_SIZE): batch = all_files[i:i + BATCH_SIZE]
NextBatch ==
    /\ pc = "batch"
    /\ i < Len(all_files)
    /\ batch' = BatchSlice(all_files, i, BATCH_SIZE)
    /\ j' = 1
    /\ pc' = "file"
    /\ UNCHANGED << fs, all_files, classification_map, processed, errors, BATCH_SIZE,
                    i, run, faults, outcomes, fs0, call >>

\* the inner loop has gone through the batch
EndBatch ==
    /\ pc = "file"
    /\ j > Len(batch)
    /\ i' = i + BATCH_SIZE
    /\ pc' = "batch"
    /\ UNCHANGED << fs, all_files, classification_map, processed, errors, BATCH_SIZE,
                    batch, j, run, faults, outcomes, fs0, call >>

\* the outer loop is exhausted: final statistics
Finish ==
    /\ pc = "batch"
    /\ i >= Len(all_files)
    /\ pc' = "done"
    /\ UNCHANGED << fs, all_files, classification_map, processed, errors, BATCH_SIZE,
                    i, batch, j, run, faults, outcomes, fs0, call >>

\* copy to main folder; on an exception record the error and go on
PrimaryCopy ==
    /\ pc = "file"
    /\ j <= Len(batch)
    /\ \E fault \in FaultChoices(faults) :
        LET source_file == batch[j]
            dest_folder == classification_map[source_file]
            r == copy_file_with_versioning(fs, source_file, dest_folder, fault)
            desired == Append(PathParts(dest_folder), source_file.name)
        IN  /\ fs' = r.fs
            /\ faults' = IF fault = "none" THEN faults ELSE faults + 1
            /\ outcomes' = Append(outcomes, Outcome(i + j, "primary", fault, desired, r))
            /\ IF r.ok
               THEN /\ processed' = ProcessedAfterPrimary(processed, source_file)
                    /\ errors' = errors
                    /\ pc' = IF is_favorite(source_file.name) THEN "fav" ELSE "file"
                    /\ j' = IF is_favorite(source_file.name) THEN j ELSE j + 1
               ELSE /\ processed' = processed
                    /\ errors' = except_Exception(errors, source_file, r.msg)
                    /\ pc' = "file"
                    /\ j' = j + 1
    /\ UNCHANGED << all_files, classification_map, BATCH_SIZE, i, batch, run, fs0, call >>

\* if favorite, also copy to the _FAVORITES subfolder
FavoriteCopy ==
    /\ pc = "fav"
    /\ \E fault \in FaultChoices(faults) :
        LET source_file == batch[j]
            dest_folder == fav_folder(classification_map[source_file])
            r == copy_file_with_versioning(fs, source_file, dest_folder, fault)
            desired == Append(PathParts(dest_folder), source_file.name)
        IN  /\ fs' = r.fs
            /\ faults' = IF fault = "none" THEN faults ELSE faults + 1
            /\ outcomes' = Append(outcomes, Outcome(i + j, "favorites", fault, desired, r))
            /\ processed' = IF r.ok THEN processed + 1 ELSE processed
            /\ errors' = IF r.ok THEN errors
                         ELSE except_Exception(errors, source_file, r.msg)
    /\ pc' = "file"
    /\ j' = j + 1
    /\ UNCHANGED << all_files, classification_map, BATCH_SIZE, i, batch, run, fs0, call >>

Next ==
    \/ Start
    \/ NextBatch
    \/ PrimaryCopy
    \/ FavoriteCopy
    \/ EndBatch
    \/ Finish

Spec == Init /\ [][Next]_vars

\* repeated runs into the same output tree; the only copy failures are those
\* the tree itself causes
InitRuns == Boot(MaxFaults)

NextRuns ==
    \/ Start
    \/ Rerun
    \/ NextBatch
    \/ PrimaryCopy
    \/ FavoriteCopy
    \/ EndBatch
    \/ Finish

SpecRuns == InitRuns /\ [][NextRuns]_vars

----------------------------------------------------------------------------
(* Direct calls of the pure helpers, on inputs drawn from bounded sets *)

Idle ==
    /\ all_files = << >>
    /\ classification_map = << >>
    /\ processed = 0
    /\ errors = << >>
    /\ BATCH_SIZE = 1
    /\ i = 0
    /\ batch = << >>
    /\ j = 1
    /\ pc = "start"
    /\ run = 0
    /\ faults = 0
    /\ outcomes = << >>

CallOf(fn, arg) == [ fn |-> fn, arg |-> arg, calls |-> 0, result |-> << >>, again |-> << >> ]

Words ==
    { <<"T", "e", "c", "h", "n", "o">>,
      <<"R", "e", "m", "i", "x">>,
      <<"p", "o", "p">>,
      <<"p", "o", "p", "p", "y">>,
      <<"D", "r", "e", "a", "m">>,
      <<"m", "e", "l", "o", "d", "i", "c">>,
      <<"(", "V", "o", "c", "a", "l", "s", ")">>,
      <<"D", "e", "e", "p", " ", "H", "o", "u", "s", "e">>,
      <<"D", "i", "e">>,
      <<"t", "r", "a", "c", "k">> }

DotWav == << ".", "w", "a", "v" >>

RECURSIVE JoinWords(_)
JoinWords(ws) ==
    IF Len(ws) = 0 THEN << >>
    ELSE IF Len(ws) = 1 THEN ws[1]
    ELSE ws[1] \o << " " >> \o JoinWords(SubSeq(ws, 2, Len(ws)))

\* file names of up to MaxWords words, and the empty file name
TestNames ==
    { << >> } \cup
    UNION { { JoinWords(ws) \o DotWav : ws \in [ 1..n -> Words ] } : n \in 0..MaxWords }

InitClassify ==
    /\ Idle
    /\ fs = EmptyTree
    /\ fs0 = EmptyTree
    /\ call \in { CallOf("classify_file", name) : name \in TestNames }

CallClassify ==
    /\ call.fn = "classify_file"
    /\ call.calls = 0
    /\ call' = [ call EXCEPT !.calls = 1, !.result = classify_file(call.arg) ]
    /\ UNCHANGED << fs, all_files, classification_map, processed, errors, BATCH_SIZE,
                    i, batch, j, pc, run, faults, outcomes, fs0 >>

NextClassify == CallClassify

SpecClassify == InitClassify /\ [][NextClassify]_vars

\* names that may be taken in the folder of the resolver calls
T_Track == <<"T", "r", "a", "c", "k", ".", "w", "a", "v">>

T_TrackV2 == <<"T", "r", "a", "c", "k", " ", "v", "2", ".", "w", "a", "v">>

T_TrackV3 == <<"T", "r", "a", "c", "k", " ", "v", "3", ".", "w", "a", "v">>

T_TrackV2V2 == <<"T", "r", "a", "c", "k", " ", "v", "2", " ", "v", "2", ".", "w", "a", "v">>

T_Wav == <<".", "w", "a", "v">>

T_WavV2 == <<".", "w", "a", "v", " ", "v", "2">>

TakenNames == { T_Track, T_TrackV2, T_TrackV3, T_TrackV2V2, T_Wav, T_WavV2 }

DesiredNames == { T_Track, T_TrackV2, T_Wav }

\* "Track.wav" and all its versions up to v<n> are taken
TakenUpTo(n) ==
    { T_Track } \cup { ExpectedVersion(T_Track, k) : k \in 2..n }

FolderWith(names) ==
    Tree(Prefixes(OtherFolder), DirEntry)
    @@ Tree({ Append(OtherFolder, name) : name \in names }, OldFile)

ResolveTrees ==
    { FolderWith(names) : names \in SUBSET TakenNames }
    \cup { FolderWith(TakenUpTo(n)) : n \in 2..MaxVersion }

InitResolve ==
    /\ Idle
    /\ fs \in ResolveTrees
    /\ fs0 = fs
    /\ call \in { CallOf("get_next_version_filename", Append(OtherFolder, name)) :
                    name \in DesiredNames }

\* one call of get_next_version_filename; a second call follows without the
\* returned path having been created
CallResolve ==
    /\ call.fn = "get_next_version_filename"
    /\ call.calls < 2
    /\ call' = IF call.calls = 0
               THEN [ call EXCEPT !.calls = 1,
                                  !.result = get_next_version_filename(fs, call.arg) ]
               ELSE [ call EXCEPT !.calls = 2,
                                  !.again = get_next_version_filename(fs, call.arg) ]
    /\ UNCHANGED << fs, all_files, classification_map, processed, errors, BATCH_SIZE,
                    i, batch, j, pc, run, faults, outcomes, fs0 >>

NextResolve == CallResolve

SpecResolve == InitResolve /\ [][NextResolve]_vars

----------------------------------------------------------------------------
(* Properties of classify_file, under SpecClassify *)

FallbackCategory == <<"9", "9", "_", "U", "n", "c", "a", "t", "e", "g", "o", "r", "i", "z", "e", "d", "/", "O", "t", "h", "e", "r">>

ExtendedVersionsCategory == <<"0", "5", "_", "R", "e", "m", "i", "x", "e", "s", "_", "E", "d", "i", "t", "s", "/", "E", "x", "t", "e", "n", "d", "e", "d", "_", "V", "e", "r", "s", "i", "o", "n", "s">>

DeepHouseRemix == <<"D", "e", "e", "p", " ", "H", "o", "u", "s", "e", " ", "R", "e", "m", "i", "x", ".", "w", "a", "v">>

\* the rules of the table with at least one pattern matching the name
MatchingRules(name) ==
    { r \in 1..Len(GENRE_RULES) :
        \E p \in 1..Len(GENRE_RULES[r].keywords) : re_search(GENRE_RULES[r].keywords[p], name) }

\* rule a is evaluated before rule b: lower priority number, then declaration order
EvaluatedBefore(a, b) ==
    \/ GENRE_RULES[a].priority < GENRE_RULES[b].priority
    \/ GENRE_RULES[a].priority = GENRE_RULES[b].priority /\ a < b

----------------------------------------------------------------------------
(* Properties of get_next_version_filename, under SpecResolve *)

TrackV11 == <<"T", "r", "a", "c", "k", " ", "v", "1", "1", ".", "w", "a", "v">>

\* C4: get_next_version_filename returns a path that does not exist: the
\* desired path when it is free, otherwise '<stem> v<k><ext>' in the same
\* folder for the smallest free k >= 2; it leaves the tree as it was, and a
\* second call returns the same path.
C4_ResolverReturnsFreePath ==
    (call.fn = "get_next_version_filename" /\ call.calls >= 1) =>
        LET desired == call.arg
            name == desired[Len(desired)]
        IN  /\ call.result \notin DOMAIN fs
            /\ (desired \notin DOMAIN fs => call.result = desired)
            /\ call.result = FirstFree(fs, Parent(desired), name)
            /\ fs = fs0
            /\ (call.calls = 2 => call.again = call.result)

\* "Track.wav" and its versions v2 .. v10 were taken: both calls gave v11
C4_Witness ==
    /\ call.fn = "get_next_version_filename"
    /\ call.calls = 2
    /\ call.arg \in DOMAIN fs
    /\ call.result = Append(OtherFolder, TrackV11)
    /\ call.again = call.result

----------------------------------------------------------------------------
(* Properties of sort_music, under Spec (C1: under SpecRuns) *)

\* a run that found files has gone through its copy phase
RunDone == pc = "done" /\ Len(all_files) > 0

NoFailureIn(outs) == \A n \in 1..Len(outs) : outs[n].ok

\* the copy attempts made for the k-th file, by kind of copy
Attempts(k, copy) ==
    { n \in 1..Len(outcomes) : outcomes[n].file = k /\ outcomes[n].copy = copy }

PrimaryOk(k) == \E n \in Attempts(k, "primary") : outcomes[n].ok

FavoritesName == <<"_", "F", "A", "V", "O", "R", "I", "T", "E", "S">>

\* outputRoot/category of a source file
CategoryDir(file_path) == PathParts(classification_map[file_path])

\* C1: a copy step leaves every entry of the output tree in place with its
\* content, over all runs into the same tree; the only file it adds is the
\* destination, which is the desired path when that is free and otherwise
\* the versioned sibling '<stem> v<k><ext>' with the smallest free k.
C1_Step ==
    /\ \A p \in DOMAIN fs : p \in DOMAIN fs' /\ fs'[p] = fs[p]
    /\ Len(outcomes') = Len(outcomes) + 1 =>
        LET o == outcomes'[Len(outcomes')]
            name == o.desired[Len(o.desired)]
        IN  /\ \A p \in DOMAIN fs' \ DOMAIN fs : fs'[p].kind = "file" => p = o.dest
            /\ o.ok => o.dest \in DOMAIN fs' \ DOMAIN fs
            /\ o.dest # << >> => o.dest = FirstFree(fs, Parent(o.desired), name)

C1_NeverOverwrites == [][C1_Step]_vars

\* in a second run a file found its name taken by the first run's copy and
\* was written as a versioned sibling, the earlier copy still being there
C1_Witness ==
    /\ run = 2
    /\ \E n \in 1..Len(outcomes) :
        /\ outcomes[n].ok
        /\ outcomes[n].desired \in DOMAIN fs0
        /\ fs0[outcomes[n].desired].data = "full"
        /\ fs[outcomes[n].desired] = fs0[outcomes[n].desired]
        /\ outcomes[n].dest # outcomes[n].desired
        /\ outcomes[n].dest \notin DOMAIN fs0
        /\ outcomes[n].dest \in DOMAIN fs

\* the error list that the failed copy attempts call for
ErrorsOf(outs) ==
    LET failed == SelectSeq(outs, LAMBDA o : ~o.ok)
    IN  [ n \in 1..Len(failed) |-> << all_files[failed[n].file].name, failed[n].msg >> ]

FailedFiles == { outcomes[n].file : n \in { m \in 1..Len(outcomes) : ~outcomes[m].ok } }

\* C2: a failing copy (primary or favourites, folder creation included) is
\* recorded once with the file's name and message and the run goes on: at the
\* end every file has been attempted, and one failing file gives one error.
C2_FailureIsolated ==
    /\ errors = ErrorsOf(outcomes)
    /\ \A n, m \in 1..Len(outcomes) :
        (~outcomes[n].ok /\ ~outcomes[m].ok /\ outcomes[n].file = outcomes[m].file) => n = m
    /\ RunDone =>
        /\ \A k \in 1..Len(all_files) : Attempts(k, "primary") # {}
        /\ Cardinality(FailedFiles) = 1 => Len(errors) = 1

\* the first file of three failed, the two after it were copied
C2_Witness ==
    /\ RunDone
    /\ Len(all_files) = 3
    /\ FailedFiles = { 1 }
    /\ errors = << << all_files[1].name, outcomes[1].msg >> >>
    /\ PrimaryOk(2)
    /\ PrimaryOk(3)
    /\ processed = 2

\* C5 as stated: at the end of a run every file has exactly one outcome if it
\* is not a favourite and exactly two if it is, whether or not a copy failed.
C5_OutcomesPerFile ==
    RunDone =>
        \A k \in 1..Len(all_files) :
            /\ Cardinality(Attempts(k, "primary")) = 1
            /\ Cardinality(Attempts(k, "favorites"))
                 = (IF HasMarker(all_files[k].name) THEN 1 ELSE 0)

\* C5 amended: exactly one outcome for a non-favourite and for a favourite
\* whose primary copy failed (its favourites copy is not attempted), exactly
\* two for a favourite whose primary copy succeeded.
C5_OutcomesPerAttemptedCopy ==
    RunDone =>
        \A k \in 1..Len(all_files) :
            /\ Cardinality(Attempts(k, "primary")) = 1
            /\ Cardinality(Attempts(k, "favorites"))
                 = (IF HasMarker(all_files[k].name) /\ PrimaryOk(k) THEN 1 ELSE 0)

\* a favourite's primary copy failed and it has this one outcome only, while
\* another favourite of the run has two
C5_Witness ==
    /\ RunDone
    /\ \E k, m \in 1..Len(all_files) :
        /\ HasMarker(all_files[k].name)
        /\ ~PrimaryOk(k)
        /\ Attempts(k, "favorites") = {}
        /\ HasMarker(all_files[m].name)
        /\ Cardinality(Attempts(m, "favorites")) = 1

\* C6: a file whose name starts with +++ is copied to outputRoot/category
\* and to outputRoot/category/_FAVORITES, each destination being the first
\* free name of its own folder; any other file is copied to
\* outputRoot/category only.  In a run without a failure these are all the
\* copies made.
C6_Step ==
    /\ (Len(outcomes') = Len(outcomes) + 1 /\ outcomes'[Len(outcomes')].ok) =>
        LET o == outcomes'[Len(outcomes')]
            f == all_files[o.file]
        IN  /\ fs'[o.dest] = CopyOf(f, "full")
            /\ o.copy = "primary" => o.dest = FirstFree(fs, CategoryDir(f), f.name)
            /\ o.copy = "favorites" =>
                /\ HasMarker(f.name)
                /\ o.dest = FirstFree(fs, Append(CategoryDir(f), FavoritesName), f.name)
    /\ (pc' = "done" /\ Len(all_files') > 0 /\ NoFailureIn(outcomes')) =>
        \A k \in 1..Len(all_files') :
            LET mine == { n \in 1..Len(outcomes') : outcomes'[n].file = k }
            IN  /\ { outcomes'[n].copy : n \in mine }
                     = (IF HasMarker(all_files'[k].name)
                        THEN { "primary", "favorites" } ELSE { "primary" })
                /\ Cardinality(mine) = (IF HasMarker(all_files'[k].name) THEN 2 ELSE 1)

C6_FavoritesDuplicated == [][C6_Step]_vars

\* a run without failure in which a favourite got a versioned name in its
\* category folder and the unversioned name in the favourites folder
C6_Witness ==
    /\ RunDone
    /\ NoFailureIn(outcomes)
    /\ \E k \in 1..Len(all_files) :
        /\ HasMarker(all_files[k].name)
        /\ \E n \in Attempts(k, "primary") : outcomes[n].dest # outcomes[n].desired
        /\ \E n \in Attempts(k, "favorites") :
            /\ outcomes[n].dest = outcomes[n].desired
            /\ fs[outcomes[n].dest] = CopyOf(all_files[k], "full")

\* the fault injected into the copy of kind copy of the k-th file
FaultAt(k, copy) ==
    IF Attempts(k, copy) = {} THEN "none"
    ELSE outcomes[CHOOSE n \in Attempts(k, copy) : TRUE].fault

\* the copy phase without batches: the files from the k-th on, one by one in
\* scan order, from the tree and counts st
RECURSIVE SequentialRun(_, _)
SequentialRun(k, st) ==
    IF k > Len(all_files) THEN st
    ELSE LET f == all_files[k]
             folder == classification_map[f]
             first == copy_file_with_versioning(st.fs, f, folder, FaultAt(k, "primary"))
             second == copy_file_with_versioning(first.fs, f, fav_folder(folder),
                                                 FaultAt(k, "favorites"))
         IN  IF ~first.ok
             THEN SequentialRun(k + 1, [ fs |-> first.fs, processed |-> st.processed,
                                         errors |-> Append(st.errors, << f.name, first.msg >>) ])
             ELSE IF ~HasMarker(f.name)
             THEN SequentialRun(k + 1, [ fs |-> first.fs, processed |-> st.processed + 1,
                                         errors |-> st.errors ])
             ELSE IF ~second.ok
             THEN SequentialRun(k + 1, [ fs |-> second.fs, processed |-> st.processed,
                                         errors |-> Append(st.errors, << f.name, second.msg >>) ])
             ELSE SequentialRun(k + 1, [ fs |-> second.fs, processed |-> st.processed + 1,
                                         errors |-> st.errors ])

\* C7: the tree, the processed count and the errors at the end of a run are
\* those of the unbatched copy of the same files, in the same order, into the
\* same initial tree under the same faults, whatever BATCH_SIZE is.
C7_BatchSizeIrrelevant ==
    RunDone =>
        [ fs |-> fs, processed |-> processed, errors |-> errors ]
            = SequentialRun(1, [ fs |-> fs0, processed |-> 0, errors |-> << >> ])

\* a finished run of three files in batches of two, the last batch short,
\* with a failure in it
C7_Witness ==
    /\ RunDone
    /\ BATCH_SIZE = 2
    /\ Len(all_files) = 3
    /\ i = 4
    /\ Len(batch) = 1
    /\ processed = 2
    /\ Len(errors) = 1

\* the k-th file is the Rank(k)-th file of its name in scan order
Rank(k) == Cardinality({ m \in 1..k : all_files[m].name = all_files[k].name })

SameName(k) == { m \in 1..Len(all_files) : all_files[m].name = all_files[k].name }

\* the path '<stem><ext>' or '<stem> v<r><ext>' of the r-th copy of a name
RankedPath(k) ==
    Append(CategoryDir(all_files[k]),
           IF Rank(k) = 1 THEN all_files[k].name
           ELSE ExpectedVersion(all_files[k].name, Rank(k)))

\* the names that the copies of the file named as the k-th need: its own
\* name and the versions v2 .. v<n>, n being the number of files of that name
NamesNeeded(k) ==
    { all_files[k].name }
    \cup { ExpectedVersion(all_files[k].name, v) : v \in 2..Cardinality(SameName(k)) }

\* a differently named file of the run in the same category needs one of
\* the names that the files named as the k-th need
NamesContested(k) ==
    \E m \in 1..Len(all_files) :
        /\ m \notin SameName(k)
        /\ classification_map[all_files[m]] = classification_map[all_files[k]]
        /\ NamesNeeded(k) \cap NamesNeeded(m) # {}

\* C8 as stated: after a run without failure into an empty tree, n >= 2
\* files of the same name are in their category folder as '<stem><ext>',
\* '<stem> v2<ext>', .., '<stem> v<n><ext>', in scan order.
C8_SameNameVersions ==
    (RunDone /\ fs0 = EmptyTree /\ NoFailureIn(outcomes)) =>
        \A k \in 1..Len(all_files) :
            Cardinality(SameName(k)) >= 2 =>
                /\ RankedPath(k) \in DOMAIN fs
                /\ fs[RankedPath(k)] = CopyOf(all_files[k], "full")

\* C8 amended: the same, provided no differently named source file of the
\* run in that category needs one of these names, as its own name or as a
\* versioned name of its own copies.
C8_SameNameVersionsUncontested ==
    (RunDone /\ fs0 = EmptyTree /\ NoFailureIn(outcomes)) =>
        \A k \in 1..Len(all_files) :
            (Cardinality(SameName(k)) >= 2 /\ ~NamesContested(k)) =>
                /\ RankedPath(k) \in DOMAIN fs
                /\ fs[RankedPath(k)] = CopyOf(all_files[k], "full")

\* three files of one name went into an empty tree, the third as v3
C8_Witness ==
    /\ RunDone
    /\ fs0 = EmptyTree
    /\ NoFailureIn(outcomes)
    /\ Len(all_files) = 3
    /\ SameName(1) = { 1, 2, 3 }
    /\ Rank(3) = 3
    /\ fs[RankedPath(3)] = CopyOf(all_files[3], "full")
    /\ fs[RankedPath(1)] = CopyOf(all_files[1], "full")

MelodicDream == <<"M", "e", "l", "o", "d", "i", "c", " ", "D", "r", "e", "a", "m", ".", "w", "a", "v">>

TechnoNight == <<"T", "e", "c", "h", "n", "o", " ", "N", "i", "g", "h", "t", ".", "w", "a", "v">>

PopAnthem == <<"+", "+", "+", "P", "o", "p", " ", "A", "n", "t", "h", "e", "m", ".", "w", "a", "v">>

MelodicDir == << <<"0", "2", "_", "A", "t", "m", "o", "s", "p", "h", "e", "r", "i", "c", "_", "E", "l", "e", "c", "t", "r", "o", "n", "i", "c">>, <<"M", "e", "l", "o", "d", "i", "c">> >>

EtherealDir == << <<"0", "2", "_", "A", "t", "m", "o", "s", "p", "h", "e", "r", "i", "c", "_", "E", "l", "e", "c", "t", "r", "o", "n", "i", "c">>, <<"E", "t", "h", "e", "r", "e", "a", "l">> >>

TechnoDir == << <<"0", "1", "_", "E", "l", "e", "c", "t", "r", "o", "n", "i", "c", "_", "D", "a", "n", "c", "e">>, <<"T", "e", "c", "h", "n", "o">> >>

PopDir == << <<"0", "4", "_", "P", "o", "p", "_", "M", "a", "i", "n", "s", "t", "r", "e", "a", "m">>, <<"P", "o", "p">> >>

\* the run is over exactly the three files of the first end-to-end scenario
\* and no copy failed
ScenarioDone ==
    /\ RunDone
    /\ Len(all_files) = 3
    /\ { all_files[k].name : k \in 1..3 } = { MelodicDream, TechnoNight, PopAnthem }
    /\ NoFailureIn(outcomes)

\* a copy of kind copy of the file named name is in folder dir
PlacedIn(name, copy, dir) ==
    \E n \in 1..Len(outcomes) :
        /\ all_files[outcomes[n].file].name = name
        /\ outcomes[n].copy = copy
        /\ Parent(outcomes[n].dest) = dir
        /\ outcomes[n].dest \in DOMAIN fs
        /\ fs[outcomes[n].dest] = CopyOf(all_files[outcomes[n].file], "full")

\* C9 as stated: 'Melodic Dream.wav' is placed in 02_Atmospheric_Electronic/
\* Melodic, 'Techno Night.wav' in 01_Electronic_Dance/Techno and
\* '+++Pop Anthem.wav' in 04_Pop_Mainstream/Pop and in its _FAVORITES.
C9_ScenarioMelodic ==
    ScenarioDone =>
        /\ PlacedIn(MelodicDream, "primary", MelodicDir)
        /\ PlacedIn(TechnoNight, "primary", TechnoDir)
        /\ PlacedIn(PopAnthem, "primary", PopDir)
        /\ PlacedIn(PopAnthem, "favorites", Append(PopDir, FavoritesName))

\* C9 amended: 'Melodic Dream.wav' is placed in 02_Atmospheric_Electronic/
\* Ethereal, whose rule has the keyword "dream" and is declared before the
\* Melodic rule of the same priority; the other two placements as stated.
C9_ScenarioEthereal ==
    ScenarioDone =>
        /\ PlacedIn(MelodicDream, "primary", EtherealDir)
        /\ PlacedIn(TechnoNight, "primary", TechnoDir)
        /\ PlacedIn(PopAnthem, "primary", PopDir)
        /\ PlacedIn(PopAnthem, "favorites", Append(PopDir, FavoritesName))

\* the scenario ran into an empty tree: four copies, three files processed
C9_Witness ==
    /\ ScenarioDone
    /\ fs0 = EmptyTree
    /\ processed = 3
    /\ Len(outcomes) = 4
    /\ Append(EtherealDir, MelodicDream) \in DOMAIN fs
    /\ Append(Append(PopDir, FavoritesName), PopAnthem) \in DOMAIN fs

\* every applicable copy of the k-th file succeeded
FullyPlaced(k) ==
    /\ PrimaryOk(k)
    /\ HasMarker(all_files[k].name) => \E n \in Attempts(k, "favorites") : outcomes[n].ok

\* the primary copy of the k-th file succeeded and its favourites copy failed
HalfPlaced(k) ==
    /\ HasMarker(all_files[k].name)
    /\ PrimaryOk(k)
    /\ \E n \in Attempts(k, "favorites") : ~outcomes[n].ok

\* C10: at the end of a run that found files, processed + errors = files
\* found, and processed counts the files all of whose applicable copies
\* succeeded; a favourite whose favourites copy failed after its primary copy
\* succeeded is an error, is not counted, and keeps its primary copy.
C10_ProcessedPlusErrors ==
    RunDone =>
        /\ processed + Len(errors) = Len(all_files)
        /\ processed = Cardinality({ k \in 1..Len(all_files) : FullyPlaced(k) })
        /\ \A k \in 1..Len(all_files) :
            HalfPlaced(k) =>
                /\ \E e \in 1..Len(errors) : errors[e][1] = all_files[k].name
                /\ \A n \in Attempts(k, "primary") :
                    /\ outcomes[n].dest \in DOMAIN fs
                    /\ fs[outcomes[n].dest] = CopyOf(all_files[k], "full")

\* a favourite is in its category folder but its favourites copy failed:
\* nothing processed, one error
C10_Witness ==
    /\ RunDone
    /\ Len(all_files) = 1
    /\ HalfPlaced(1)
    /\ processed = 0
    /\ Len(errors) = 1

====
